---- MODULE Spec2Model ----
(***************************************************************************)
(* Sale transaction engine, inventory ledger and role-permission evaluator *)
(* of the pharmacy backend.                                                *)
(*                                                                         *)
(* The database is the committed state (product, customer, sale, saleItem, *)
(* stockMovement and receipt rows).  Every `await` of a controller is one  *)
(* step, so concurrent requests interleave at the statements they send to  *)
(* the store.  createSale runs inside prisma.$transaction: its writes are  *)
(* buffered in tx[r] and become visible at commit; a throw discards them.  *)
(* The store is PostgreSQL at its default READ COMMITTED level: a read     *)
(* sees the committed rows plus the transaction's own writes, an UPDATE    *)
(* takes the row lock and waits for a lock held by another transaction.    *)
(*                                                                         *)
(* Money is kept in fixed point: every amount is stored multiplied by      *)
(* TaxRateDen, so that subtotal * 0.17 is an exact integer.                *)
(*                                                                         *)
(* The permission evaluator reads the role table held in memory; the role  *)
(* API (permission queries, role list, role assignment) runs beside it.    *)
(***************************************************************************)
EXTENDS Integers, Sequences, FiniteSets, TLC

\* ---------------------------------------------------------------- bounds
MaxItems == 2
MaxStock == 4
MaxCheckouts == 3
MaxAdminOps == 2
SuffixRange == 3

\* ------------------------------------------------------ program constants
TaxRateNum == 17
TaxRateDen == 100
PointsDivisor == 100

\* ---------------------------------------------------------------- inputs
AdminSlots == {"a1", "a2"}
Slots == {"r1", "r2"}
ProductIds == {"pA", "pB"}
UnknownProduct == "pX"
CustomerIds == {"c1"}
UnknownCustomer == "cX"
NoCustomer == "null"
InitialStocks == {1, MaxStock}
ReceiptSuffixes == 0..(SuffixRange - 1)

\* Request bodies createSaleSchema accepts: items.min(1), quantity.min(1),
\* unitPrice.positive(), discountAmount.min(0).
createSaleSchema(products, quantities, unitPrices, customers, discounts) ==
  [customerId : customers,
   items : UNION {[1..n -> [productId : products,
                            quantity : quantities,
                            unitPrice : unitPrices]] : n \in 1..MaxItems},
   discountAmount : discounts]

\* Workload of Spec: two clients, one checkout each, at the same time.
ConcurrentBodies ==
  createSaleSchema(ProductIds \cup {UnknownProduct}, {1}, {85},
                   {"c1", UnknownCustomer, NoCustomer}, {0})

\* Workload of SpecSeq: one client, up to MaxCheckouts checkouts in a row.
SequentialBodies ==
  createSaleSchema({"pA"}, {1, 2}, {85}, {"c1"}, {0, 500})

\* Workload of SpecPrice: one client, one checkout, all pricing inputs.
PricingBodies ==
  createSaleSchema(ProductIds, {1, 2}, {15, 85}, {"c1", NoCustomer}, {0, 10, 500})

\* Workload of SpecAdmin: one checkout beside the stock administration.
AdminBodies ==
  createSaleSchema(ProductIds, {1}, {85}, {"c1", NoCustomer}, {0})

\* Workload of SpecDisjoint: two clients at the same time, each buying its
\* own product and naming no customer, so that the two transactions write no
\* common row.
DisjointBodies(r) ==
  createSaleSchema({IF r = "r1" THEN "pA" ELSE "pB"}, {1}, {85}, {NoCustomer}, {0})

\* updateStock has no schema: any type and any number reach the handler.
MovementTypes == {"IN", "OUT", "ADJUSTMENT", "RETURN"}
MovementQuantities == {-1, 0, 1, 2}

\* Users and the roles their rows can carry: the five roles of the table and
\* the two older names the seed still writes.
UserIds == {"u1", "u2"}
UnknownUser == "uX"
\* A request without a session.
NoUser == ""
AssignableRoles == {"PRODUCT_OWNER", "SUPER_ADMIN", "MANAGER", "PHARMACIST", "CASHIER"}
RoleNames == AssignableRoles \cup {"ADMIN", "SUPERADMIN"}
UserBranches == {"", "b1"}
TargetBranches == {"", "b1", "b2"}

\* The session of each client: req.user, as the authentication layer set it.
SessionUser(r) == IF r = "r1" THEN "u1" ELSE "u2"

\* Queries of checkPermission in SpecRole.
RoleResources == {"sales", "reports"}
RoleActions == {"create", "read"}

VARIABLES product, customer, sale, saleItem, stockMovement, receipt,
          nextId, pc, body, tx, idx, response,
          apc, areq, aresponse, adminOps,
          user, roleOverrides, check, rresponse

db == <<product, customer, sale, saleItem, stockMovement, receipt>>
checkout == <<nextId, pc, body, tx, idx, response>>
admin == <<apc, areq, aresponse, adminOps>>
access == <<user, roleOverrides, check, rresponse>>
vars == <<product, customer, sale, saleItem, stockMovement, receipt,
          nextId, pc, body, tx, idx, response,
          apc, areq, aresponse, adminOps,
          user, roleOverrides, check, rresponse>>

\* ------------------------------------------------------------ permissions
RESOURCES ==
  {"users", "employees", "branches", "products", "categories", "suppliers",
   "stock_movements", "sales", "receipts", "refunds", "reports", "dashboard",
   "analytics", "settings", "integrations", "backup", "prescriptions",
   "customers", "medication_history", "commissions", "payments", "billing"}

\* ACTIONS (a reserved word here)
ACTION_NAMES ==
  {"create", "read", "update", "delete", "approve", "reject", "export",
   "import", "manage"}

\* One entry of a role's permission list.  A condition the entry does not
\* give (undefined) reads as FALSE, and a missing limit as 0: the evaluator
\* tests them with `=== true` and by truthiness.
Permission(resource, actions, branchId, ownData, limit) ==
  [resource |-> resource,
   actions |-> actions,
   conditions |-> [branchId |-> branchId, ownData |-> ownData, limit |-> limit]]

\* { branchId: false }
Global(resource, actions) == Permission(resource, actions, FALSE, FALSE, 0)
\* { branchId: true }
Branch(resource, actions) == Permission(resource, actions, TRUE, FALSE, 0)
\* actions: [], conditions: {}
Denied(resource) == Permission(resource, <<>>, FALSE, FALSE, 0)

\* The role table as the module loads it.
ROLE_PERMISSIONS ==
  << [role |-> "PRODUCT_OWNER",
      permissions |->
        << Global("users", <<"manage">>),
           Global("branches", <<"manage">>),
           Global("settings", <<"manage">>),
           Global("integrations", <<"manage">>),
           Global("backup", <<"manage">>),
           Global("analytics", <<"read">>),
           Global("billing", <<"manage">>),
           Denied("products"),
           Denied("sales"),
           Denied("prescriptions") >>],
     [role |-> "SUPER_ADMIN",
      permissions |->
        << Branch("users", <<"manage">>),
           Branch("employees", <<"manage">>),
           Branch("branches", <<"manage">>),
           Branch("products", <<"manage">>),
           Branch("categories", <<"manage">>),
           Branch("suppliers", <<"manage">>),
           Branch("sales", <<"manage">>),
           Branch("reports", <<"manage">>),
           Branch("dashboard", <<"read">>),
           Branch("settings", <<"manage">>),
           Branch("integrations", <<"manage">>),
           Branch("backup", <<"manage">>),
           Branch("commissions", <<"manage">>),
           Branch("customers", <<"manage">>),
           Branch("refunds", <<"manage">>) >>],
     [role |-> "MANAGER",
      permissions |->
        << Branch("users", <<"create", "read", "update">>),
           Branch("employees", <<"manage">>),
           Branch("products", <<"manage">>),
           Branch("categories", <<"manage">>),
           Branch("suppliers", <<"manage">>),
           Branch("sales", <<"read", "update">>),
           Branch("reports", <<"read", "export">>),
           Branch("dashboard", <<"read">>),
           Permission("refunds", <<"approve", "reject">>, TRUE, FALSE, 1000),
           Branch("customers", <<"manage">>),
           Branch("commissions", <<"read">>),
           Branch("settings", <<"read">>),
           Denied("integrations"),
           Denied("backup") >>],
     [role |-> "PHARMACIST",
      permissions |->
        << Branch("products", <<"read", "update">>),
           Branch("prescriptions", <<"manage">>),
           Branch("customers", <<"read", "update">>),
           Branch("medication_history", <<"read">>),
           Branch("sales", <<"read", "update">>),
           Branch("stock_movements", <<"read", "update">>),
           Branch("dashboard", <<"read">>),
           Branch("reports", <<"read">>),
           Branch("categories", <<"read">>),
           Denied("users"),
           Denied("employees"),
           Denied("commissions"),
           Denied("settings") >>],
     [role |-> "CASHIER",
      permissions |->
        << Branch("sales", <<"create", "read">>),
           Branch("receipts", <<"create", "read">>),
           Permission("refunds", <<"create", "read">>, TRUE, FALSE, 100),
           Branch("products", <<"read">>),
           Branch("customers", <<"read", "create", "update">>),
           Branch("categories", <<"read">>),
           Branch("dashboard", <<"read">>),
           Permission("reports", <<"read">>, TRUE, TRUE, 0),
           Denied("users"),
           Denied("employees"),
           Denied("settings"),
           Denied("suppliers"),
           Denied("stock_movements"),
           Denied("commissions") >>] >>

\* The role table in memory: the table as loaded, with the permission lists
\* written into it since (none at start-up).
rolePermissions ==
  [i \in DOMAIN ROLE_PERMISSIONS |->
     IF ROLE_PERMISSIONS[i].role \in DOMAIN roleOverrides
     THEN [ROLE_PERMISSIONS[i] EXCEPT !.permissions = roleOverrides[ROLE_PERMISSIONS[i].role]]
     ELSE ROLE_PERMISSIONS[i]]

\* Array.prototype.find: the first element that passes the test, as a
\* sequence of length 0 or 1.
First(seq, hits) ==
  IF hits = {} THEN <<>>
  ELSE <<seq[CHOOSE i \in hits : \A j \in hits : i <= j]>>

\* ROLE_PERMISSIONS.find(r => r.role === role)
FindRole(rows, role) == First(rows, {i \in DOMAIN rows : rows[i].role = role})

\* permissions.find(p => p.resource === resource)
FindResource(permissions, resource) ==
  First(permissions, {i \in DOMAIN permissions : permissions[i].resource = resource})

\* Array.prototype.includes
Includes(seq, x) == \E i \in DOMAIN seq : seq[i] = x

getRolePermissions(role) ==
  LET roleConfig == FindRole(rolePermissions, role)
  IN IF roleConfig # <<>> THEN roleConfig[1].permissions ELSE <<>>

\* Variant of hasPermission in which 'manage' stands for every action.
hasPermissionManageImplies(userRole, resource, action, userBranchId, targetBranchId, isOwnData) ==
  LET permission == FindResource(getRolePermissions(userRole), resource)
  IN IF permission = <<>> THEN FALSE
     ELSE IF /\ ~Includes(permission[1].actions, action)
             /\ ~Includes(permission[1].actions, "manage") THEN FALSE
     ELSE IF /\ permission[1].conditions.branchId = TRUE
             /\ userBranchId # "" /\ targetBranchId # ""
             /\ userBranchId # targetBranchId THEN FALSE
     ELSE IF permission[1].conditions.ownData = TRUE /\ ~isOwnData THEN FALSE
     ELSE TRUE

\* Variant of hasPermission without the branch condition.
hasPermissionAnyBranch(userRole, resource, action, userBranchId, targetBranchId, isOwnData) ==
  LET permission == FindResource(getRolePermissions(userRole), resource)
  IN IF permission = <<>> THEN FALSE
     ELSE IF ~Includes(permission[1].actions, action) THEN FALSE
     ELSE IF permission[1].conditions.ownData = TRUE /\ ~isOwnData THEN FALSE
     ELSE TRUE

\* Variant of hasPermission without the own-data condition.
hasPermissionAnyOwner(userRole, resource, action, userBranchId, targetBranchId, isOwnData) ==
  LET permission == FindResource(getRolePermissions(userRole), resource)
  IN IF permission = <<>> THEN FALSE
     ELSE IF ~Includes(permission[1].actions, action) THEN FALSE
     ELSE IF /\ permission[1].conditions.branchId = TRUE
             /\ userBranchId # "" /\ targetBranchId # ""
             /\ userBranchId # targetBranchId THEN FALSE
     ELSE TRUE

\* Variant of hasPermission that denies a branch-scoped permission when a
\* branch id is missing.
hasPermissionBranchRequired(userRole, resource, action, userBranchId, targetBranchId, isOwnData) ==
  LET permission == FindResource(getRolePermissions(userRole), resource)
  IN IF permission = <<>> THEN FALSE
     ELSE IF ~Includes(permission[1].actions, action) THEN FALSE
     ELSE IF /\ permission[1].conditions.branchId = TRUE
             /\ (userBranchId = "" \/ targetBranchId = ""
                 \/ userBranchId # targetBranchId) THEN FALSE
     ELSE IF permission[1].conditions.ownData = TRUE /\ ~isOwnData THEN FALSE
     ELSE TRUE

\* hasPermission: an absent branch id is the empty string (falsy), and the
\* limit condition changes no decision.
hasPermission(userRole, resource, action, userBranchId, targetBranchId, isOwnData) ==
  LET permissions == getRolePermissions(userRole)
      permission == FindResource(permissions, resource)
  IN IF permission = <<>> THEN FALSE
     ELSE IF ~Includes(permission[1].actions, action) THEN FALSE
     ELSE IF /\ permission[1].conditions.branchId = TRUE
             /\ userBranchId # "" /\ targetBranchId # ""
             /\ userBranchId # targetBranchId THEN FALSE
     ELSE IF permission[1].conditions.ownData = TRUE /\ ~isOwnData THEN FALSE
     ELSE TRUE

\* Array.prototype.map(p => p.resource)
RECURSIVE ResourcesOf(_)
ResourcesOf(permissions) ==
  IF permissions = <<>> THEN <<>>
  ELSE <<Head(permissions).resource>> \o ResourcesOf(Tail(permissions))

\* Variant of getAccessibleResources without the filter on empty action
\* lists.
getAccessibleResourcesUnfiltered(role) == ResourcesOf(getRolePermissions(role))

\* permissions.filter(p => p.actions.length > 0).map(p => p.resource)
getAccessibleResources(role) ==
  ResourcesOf(SelectSeq(getRolePermissions(role), LAMBDA p : Len(p.actions) > 0))

\* permission ? permission.actions : []
getAllowedActions(role, resource) ==
  LET permission == FindResource(getRolePermissions(role), resource)
  IN IF permission # <<>> THEN permission[1].actions ELSE <<>>

\* ------------------------------------------------------ pricing / loyalty
RECURSIVE SumLines(_, _)
SumLines(items, n) ==
  IF n = 0 THEN 0
  ELSE SumLines(items, n - 1) + items[n].quantity * items[n].unitPrice

RECURSIVE SumUnitPrices(_, _)
SumUnitPrices(items, n) ==
  IF n = 0 THEN 0 ELSE SumUnitPrices(items, n - 1) + items[n].unitPrice

\* Variant of Subtotal that adds the unit prices without the quantities.
SubtotalIgnoringQuantity(items) == SumUnitPrices(items, Len(items)) * TaxRateDen

\* const subtotal = items.reduce((sum, item) => sum + quantity * unitPrice, 0)
Subtotal(items) == SumLines(items, Len(items)) * TaxRateDen

\* const taxAmount = subtotal * 0.17
TaxAmount(subtotal) == (subtotal * TaxRateNum) \div TaxRateDen

\* const totalAmount = subtotal + taxAmount - (discountAmount || 0)
TotalAmount(subtotal, taxAmount, discountAmount) ==
  subtotal + taxAmount - discountAmount * TaxRateDen

\* Variant of LoyaltyPoints that rounds up (Math.ceil).
LoyaltyPointsRoundedUp(totalAmount) ==
  -((-totalAmount) \div (PointsDivisor * TaxRateDen))

\* Math.floor(totalAmount / 100)
LoyaltyPoints(totalAmount) == totalAmount \div (PointsDivisor * TaxRateDen)

\* ------------------------------------------------------------ transaction
EmptyTx ==
  [sale |-> <<>>, items |-> <<>>, movements |-> <<>>,
   dec |-> [p \in ProductIds |-> 0], cust |-> <<>>]

\* Row locks follow from the buffered writes.
HoldsProduct(r, p) == tx[r].dec[p] > 0
HoldsCustomer(r) == tx[r].cust # <<>>
ProductLockedByOther(r, p) == \E o \in Slots \ {r} : HoldsProduct(o, p)
CustomerLockedByOther(r, c) ==
  \E o \in Slots \ {r} : HoldsCustomer(o) /\ tx[o].cust[1].id = c

Reply(r, status, kind) ==
  response' = [response EXCEPT ![r] = [status |-> status, kind |-> kind]]

\* A throw inside the $transaction callback: the buffered writes are
\* dropped and the catch block answers 500.
Rollback(r, kind) ==
  /\ tx' = [tx EXCEPT ![r] = EmptyTx]
  /\ pc' = [pc EXCEPT ![r] = "done"]
  /\ body' = [body EXCEPT ![r] = <<>>]
  /\ Reply(r, 500, kind)
  /\ UNCHANGED <<db, nextId, idx, admin, access>>

SeededUsers ==
  [u \in UserIds |->
     [role |-> IF u = "u1" THEN "CASHIER" ELSE "MANAGER", branchId |-> "b1"]]

\* No request in flight, the role table as shipped.
InitRequests ==
  /\ nextId = 1
  /\ pc = [r \in Slots |-> "idle"]
  /\ body = [r \in Slots |-> <<>>]
  /\ tx = [r \in Slots |-> EmptyTx]
  /\ idx = [r \in Slots |-> 0]
  /\ response = [r \in Slots |-> [status |-> 0, kind |-> "none"]]
  /\ apc = [a \in AdminSlots |-> "idle"]
  /\ areq = [a \in AdminSlots |-> <<>>]
  /\ aresponse = [a \in AdminSlots |-> 0]
  /\ adminOps = 0
  /\ roleOverrides = [role \in {} |-> <<>>]
  /\ check = <<>>
  /\ rresponse = 0

\* The state after start-up, but for the users table.
InitData ==
  /\ product \in [ProductIds -> [stock : InitialStocks, isActive : {TRUE}]]
  /\ customer = [c \in CustomerIds |-> [totalPurchases |-> 0, loyaltyPoints |-> 0]]
  /\ sale = {}
  /\ saleItem = {}
  /\ stockMovement = <<>>
  /\ receipt = {}
  /\ InitRequests

Init == InitData /\ user = SeededUsers

\* createSale, up to tx.sale.create: the totals are computed from the
\* request body and the Sale header is inserted in the transaction.
SaleHeader(id, b, userId) ==
  [id |-> id,
   userId |-> userId,
   customerId |-> b.customerId,
   subtotal |-> Subtotal(b.items),
   taxAmount |-> TaxAmount(Subtotal(b.items)),
   discountAmount |-> b.discountAmount * TaxRateDen,
   totalAmount |-> TotalAmount(Subtotal(b.items), TaxAmount(Subtotal(b.items)),
                               b.discountAmount)]

CreateSale(r, b) ==
  /\ pc[r] \in {"idle", "done"}
  /\ nextId <= MaxCheckouts
  /\ body' = [body EXCEPT ![r] = <<b>>]
  /\ tx' = [tx EXCEPT ![r] = [EmptyTx EXCEPT !.sale = <<SaleHeader(nextId, b, SessionUser(r))>>]]
  /\ nextId' = nextId + 1
  /\ idx' = [idx EXCEPT ![r] = 1]
  /\ pc' = [pc EXCEPT ![r] = "findProduct"]
  /\ Reply(r, 0, "none")
  /\ UNCHANGED <<db, admin, access>>

\* Variant of StockSeen that reads the committed row only.
StockSeenCommitted(r, p) == product[p].stock

\* What tx.product.findUnique sees: the committed row and the
\* transaction's own decrements.
StockSeen(r, p) == product[p].stock - tx[r].dec[p]

SaleItemRow(r, i, item) ==
  [saleId |-> tx[r].sale[1].id,
   lineNo |-> i,
   productId |-> item.productId,
   quantity |-> item.quantity,
   unitPrice |-> item.unitPrice * TaxRateDen,
   totalPrice |-> item.quantity * item.unitPrice * TaxRateDen]

\* Loop body, first half: findUnique, the two checks, saleItem.create.
FindProduct(r) ==
  /\ pc[r] = "findProduct"
  /\ LET item == body[r][1].items[idx[r]]
         p == item.productId
     IN IF p \notin DOMAIN product
        THEN Rollback(r, "ProductNotFound")
        ELSE IF StockSeen(r, p) < item.quantity
        THEN Rollback(r, "InsufficientStock")
        ELSE /\ tx' = [tx EXCEPT ![r].items = Append(@, SaleItemRow(r, idx[r], item))]
             /\ pc' = [pc EXCEPT ![r] = "updateStock"]
             /\ UNCHANGED <<db, nextId, body, idx, response, admin, access>>

OutMovement(r, item) ==
  [productId |-> item.productId,
   type |-> "OUT",
   quantity |-> item.quantity,
   reason |-> "Sale",
   reference |-> tx[r].sale[1].id]

\* Variant of Decrement that stores the quantity instead of subtracting it.
DecrementOverwrite(dec, item) == [dec EXCEPT ![item.productId] = item.quantity]

\* stock: { decrement: item.quantity }
Decrement(dec, item) == [dec EXCEPT ![item.productId] = @ + item.quantity]

AfterLoop(r) ==
  IF idx[r] < Len(body[r][1].items) THEN "findProduct"
  ELSE IF body[r][1].customerId # NoCustomer THEN "updateCustomer"
  ELSE "createReceipt"

\* Variant of DecrementStock that writes through the global client
\* (prisma.product.update) instead of the transaction client.
DecrementStockOutsideTx(r) ==
  /\ pc[r] = "updateStock"
  /\ LET item == body[r][1].items[idx[r]]
     IN /\ ~ProductLockedByOther(r, item.productId)
        /\ product' = [product EXCEPT ![item.productId].stock = @ - item.quantity]
        /\ tx' = [tx EXCEPT ![r].movements = Append(@, OutMovement(r, item))]
        /\ idx' = [idx EXCEPT ![r] = @ + 1]
        /\ pc' = [pc EXCEPT ![r] = AfterLoop(r)]
        /\ UNCHANGED <<customer, sale, saleItem, stockMovement, receipt,
                       nextId, body, response, admin, access>>

\* Loop body, second half: product.update (decrement) and
\* stockMovement.create.  The UPDATE waits for the row lock.
DecrementStock(r) ==
  /\ pc[r] = "updateStock"
  /\ LET item == body[r][1].items[idx[r]]
     IN /\ ~ProductLockedByOther(r, item.productId)
        /\ tx' = [tx EXCEPT ![r].dec = Decrement(@, item),
                            ![r].movements = Append(@, OutMovement(r, item))]
        /\ idx' = [idx EXCEPT ![r] = @ + 1]
        /\ pc' = [pc EXCEPT ![r] = AfterLoop(r)]
        /\ UNCHANGED <<db, nextId, body, response, admin, access>>

CustomerIncrement(r) ==
  [id |-> body[r][1].customerId,
   totalPurchases |-> tx[r].sale[1].totalAmount,
   loyaltyPoints |-> LoyaltyPoints(tx[r].sale[1].totalAmount)]

\* tx.customer.update: throws when the customer row does not exist.
UpdateCustomer(r) ==
  /\ pc[r] = "updateCustomer"
  /\ LET c == body[r][1].customerId
     IN IF c \notin DOMAIN customer
        THEN Rollback(r, "CustomerNotFound")
        ELSE /\ ~CustomerLockedByOther(r, c)
             /\ tx' = [tx EXCEPT ![r].cust = <<CustomerIncrement(r)>>]
             /\ pc' = [pc EXCEPT ![r] = "createReceipt"]
             /\ UNCHANGED <<db, nextId, body, idx, response, admin, access>>

\* Variant of ReceiptNumberTaken for a store without the constraint.
ReceiptNumberNeverTaken(n) == n \notin ReceiptSuffixes

\* The uniqueness constraint of Receipt.receiptNumber in the store.
ReceiptNumberTaken(n) == \E rc \in receipt : rc.receiptNumber = n

ApplyCustomer(cust) ==
  IF cust = <<>> THEN customer
  ELSE [customer EXCEPT
          ![cust[1].id].totalPurchases = @ + cust[1].totalPurchases,
          ![cust[1].id].loyaltyPoints = @ + cust[1].loyaltyPoints]

\* The callback returns and the transaction commits.
Commit(r, n) ==
  /\ product' = [p \in DOMAIN product |->
                   [product[p] EXCEPT !.stock = @ - tx[r].dec[p]]]
  /\ customer' = ApplyCustomer(tx[r].cust)
  /\ sale' = sale \cup {tx[r].sale[1]}
  /\ saleItem' = saleItem \cup {tx[r].items[i] : i \in DOMAIN tx[r].items}
  /\ stockMovement' = stockMovement \o tx[r].movements
  /\ receipt' = receipt \cup {[saleId |-> tx[r].sale[1].id, receiptNumber |-> n]}
  /\ tx' = [tx EXCEPT ![r] = EmptyTx]
  /\ pc' = [pc EXCEPT ![r] = "fetchSale"]
  /\ UNCHANGED <<nextId, body, idx, response, admin, access>>

\* Receipt number RCP-<date>-<Math.floor(Math.random() * 1000)>,
\* tx.receipt.create, then the commit.
CreateReceipt(r, n) ==
  /\ pc[r] = "createReceipt"
  /\ IF ReceiptNumberTaken(n)
     THEN Rollback(r, "ReceiptNumberTaken")
     ELSE Commit(r, n)

\* prisma.sale.findUnique after the transaction, then the 201 answer.
FetchSale(r) ==
  /\ pc[r] = "fetchSale"
  /\ pc' = [pc EXCEPT ![r] = "done"]
  /\ body' = [body EXCEPT ![r] = <<>>]
  /\ Reply(r, 201, "created")
  /\ UNCHANGED <<db, nextId, tx, idx, admin, access>>

\* prisma.sale.findUnique after the transaction throws (the store is
\* unreachable), or finds nothing: the handler answers 500.
FetchSaleFails(r) ==
  /\ pc[r] = "fetchSale"
  /\ pc' = [pc EXCEPT ![r] = "done"]
  /\ body' = [body EXCEPT ![r] = <<>>]
  /\ Reply(r, 500, "ReadBack")
  /\ UNCHANGED <<db, nextId, tx, idx, admin, access>>

\* A transaction that waits for a row lock is ended by the store
\* (deadlock detection, transaction timeout); the catch block answers 500.
WaitsForLock(r) ==
  \/ /\ pc[r] = "updateStock"
     /\ ProductLockedByOther(r, body[r][1].items[idx[r]].productId)
  \/ /\ pc[r] = "updateCustomer"
     /\ body[r][1].customerId \in DOMAIN customer
     /\ CustomerLockedByOther(r, body[r][1].customerId)

LockTimeout(r) ==
  /\ WaitsForLock(r)
  /\ Rollback(r, "Transient")

\* ------------------------------------------------------------ updateStock
\* Rows a checkout transaction in flight has written or references: the
\* store makes other writers of the row wait until it ends.
ProductLocked(p) == \E r \in Slots : HoldsProduct(r, p)
ProductReferenced(p) ==
  \E r \in Slots : \E i \in DOMAIN tx[r].items : tx[r].items[i].productId = p

AdminReply(a, status) ==
  /\ apc' = [apc EXCEPT ![a] = "idle"]
  /\ areq' = [areq EXCEPT ![a] = <<>>]
  /\ aresponse' = [aresponse EXCEPT ![a] = status]

\* Variant of NewStock in which ADJUSTMENT adds the quantity, like IN.
NewStockAdjustmentAdds(stock, type, quantity) ==
  IF type \in {"IN", "ADJUSTMENT"} THEN stock + quantity
  ELSE IF type = "OUT" THEN stock - quantity
  ELSE stock

\* let newStock = product.stock; IN adds, OUT subtracts, ADJUSTMENT sets.
NewStock(stock, type, quantity) ==
  IF type = "IN" THEN stock + quantity
  ELSE IF type = "OUT" THEN stock - quantity
  ELSE IF type = "ADJUSTMENT" THEN quantity
  ELSE stock

\* updateStock up to the computation of newStock.
UpdateStockRead(a, id, type, quantity) ==
  /\ apc[a] = "idle"
  /\ adminOps < MaxAdminOps
  /\ adminOps' = adminOps + 1
  /\ IF quantity = 0
     THEN AdminReply(a, 400)
     ELSE IF id \notin DOMAIN product
     THEN AdminReply(a, 404)
     ELSE IF type = "OUT" /\ NewStock(product[id].stock, type, quantity) < 0
     THEN AdminReply(a, 400)
     ELSE /\ apc' = [apc EXCEPT ![a] = "usUpdate"]
          /\ areq' = [areq EXCEPT ![a] =
                        <<[id |-> id, type |-> type, quantity |-> quantity,
                           newStock |-> NewStock(product[id].stock, type, quantity)]>>]
          /\ UNCHANGED aresponse
  /\ UNCHANGED <<db, checkout, access>>

\* prisma.product.update({ data: { stock: newStock } })
UpdateStockWrite(a) ==
  /\ apc[a] = "usUpdate"
  /\ ~ProductLocked(areq[a][1].id)
  /\ IF areq[a][1].id \notin DOMAIN product
     THEN AdminReply(a, 500) /\ UNCHANGED product
     ELSE /\ product' = [product EXCEPT ![areq[a][1].id].stock = areq[a][1].newStock]
          /\ apc' = [apc EXCEPT ![a] = "usMovement"]
          /\ UNCHANGED <<areq, aresponse>>
  /\ UNCHANGED <<customer, sale, saleItem, stockMovement, receipt, checkout, adminOps, access>>

ManualMovement(req) ==
  [productId |-> req.id,
   type |-> req.type,
   quantity |-> req.quantity,
   reason |-> "Manual",
   reference |-> 0]

\* prisma.stockMovement.create, then the answer.
UpdateStockMovement(a) ==
  /\ apc[a] = "usMovement"
  /\ IF areq[a][1].id \notin DOMAIN product
     THEN AdminReply(a, 500) /\ UNCHANGED stockMovement
     ELSE /\ stockMovement' = Append(stockMovement, ManualMovement(areq[a][1]))
          /\ AdminReply(a, 200)
  /\ UNCHANGED <<product, customer, sale, saleItem, receipt, checkout, adminOps, access>>

\* prisma.stockMovement.create throws (the store is unreachable): the
\* catch block answers 500; the product row is already written.
UpdateStockMovementFails(a) ==
  /\ apc[a] = "usMovement"
  /\ AdminReply(a, 500)
  /\ UNCHANGED <<db, checkout, adminOps, access>>

\* ---------------------------------------------------------- deleteProduct
\* deleteProduct: findUnique, then the two counts of related rows.
DeleteProductCount(a, id) ==
  /\ apc[a] = "idle"
  /\ adminOps < MaxAdminOps
  /\ adminOps' = adminOps + 1
  /\ IF id \notin DOMAIN product
     THEN AdminReply(a, 404)
     ELSE /\ apc' = [apc EXCEPT ![a] =
                       IF \/ \E it \in saleItem : it.productId = id
                          \/ \E i \in DOMAIN stockMovement : stockMovement[i].productId = id
                       THEN "dpDeactivate" ELSE "dpDelete"]
          /\ areq' = [areq EXCEPT ![a] = <<[id |-> id]>>]
          /\ UNCHANGED aresponse
  /\ UNCHANGED <<db, checkout, access>>

\* Related rows were counted: product.update({ data: { isActive: false } }).
DeleteProductDeactivate(a) ==
  /\ apc[a] = "dpDeactivate"
  /\ ~ProductLocked(areq[a][1].id)
  /\ product' = IF areq[a][1].id \in DOMAIN product
                 THEN [product EXCEPT ![areq[a][1].id].isActive = FALSE]
                 ELSE product
  /\ AdminReply(a, IF areq[a][1].id \in DOMAIN product THEN 200 ELSE 500)
  /\ UNCHANGED <<customer, sale, saleItem, stockMovement, receipt, checkout, adminOps, access>>

RECURSIVE WithoutProduct(_, _)
WithoutProduct(movements, id) ==
  IF movements = <<>> THEN <<>>
  ELSE IF Head(movements).productId = id THEN WithoutProduct(Tail(movements), id)
  ELSE <<Head(movements)>> \o WithoutProduct(Tail(movements), id)

\* No related rows were counted: the transaction of deleteMany
\* (stock movements, sale items) and product.delete.
DeleteProductPurge(a) ==
  /\ apc[a] = "dpDelete"
  /\ ~ProductLocked(areq[a][1].id)
  /\ ~ProductReferenced(areq[a][1].id)
  /\ IF areq[a][1].id \notin DOMAIN product
     THEN AdminReply(a, 500) /\ UNCHANGED <<product, saleItem, stockMovement>>
     ELSE /\ stockMovement' = WithoutProduct(stockMovement, areq[a][1].id)
          /\ saleItem' = {it \in saleItem : it.productId # areq[a][1].id}
          /\ product' = [p \in DOMAIN product \ {areq[a][1].id} |-> product[p]]
          /\ AdminReply(a, 200)
  /\ UNCHANGED <<customer, sale, receipt, checkout, adminOps, access>>

\* ---------------------------------------------------------- createProduct
\* createProduct up to prisma.product.create; the store generates the id.
CreateProductInsert(a, id, stock) ==
  /\ apc[a] = "idle"
  /\ adminOps < MaxAdminOps
  /\ adminOps' = adminOps + 1
  /\ id \notin DOMAIN product
  /\ IF stock < 0
     THEN AdminReply(a, 400) /\ UNCHANGED product
     ELSE /\ product' = [p \in DOMAIN product \cup {id} |->
                           IF p = id THEN [stock |-> stock, isActive |-> TRUE]
                           ELSE product[p]]
          /\ apc' = [apc EXCEPT ![a] = "cpMovement"]
          /\ areq' = [areq EXCEPT ![a] = <<[id |-> id, type |-> "IN", quantity |-> stock]>>]
          /\ UNCHANGED aresponse
  /\ UNCHANGED <<customer, sale, saleItem, stockMovement, receipt, checkout, access>>

InitialMovement(req) ==
  [productId |-> req.id,
   type |-> "IN",
   quantity |-> req.quantity,
   reason |-> "Initial stock",
   reference |-> 0]

\* Create initial stock movement, then the 201 answer.
CreateProductMovement(a) ==
  /\ apc[a] = "cpMovement"
  /\ IF areq[a][1].id \notin DOMAIN product
     THEN AdminReply(a, 500) /\ UNCHANGED stockMovement
     ELSE /\ stockMovement' = Append(stockMovement, InitialMovement(areq[a][1]))
          /\ AdminReply(a, 201)
  /\ UNCHANGED <<product, customer, sale, saleItem, receipt, checkout, adminOps, access>>

\* ---------------------------------------------------------- updateProduct
\* The fields of updateProductSchema that touch the stock administration;
\* a field left out of the body is <<>>.
UpdateProductData ==
  [stock : {<<>>, <<-1>>, <<0>>, <<MaxStock - 1>>}, isActive : {<<>>, <<FALSE>>}]

\* updateProduct: validation and findUnique.
UpdateProductFind(a, id, updateData) ==
  /\ apc[a] = "idle"
  /\ adminOps < MaxAdminOps
  /\ adminOps' = adminOps + 1
  /\ IF updateData.stock # <<>> /\ updateData.stock[1] < 0
     THEN AdminReply(a, 400)
     ELSE IF id \notin DOMAIN product
     THEN AdminReply(a, 404)
     ELSE /\ apc' = [apc EXCEPT ![a] = "upUpdate"]
          /\ areq' = [areq EXCEPT ![a] = <<[id |-> id, updateData |-> updateData]>>]
          /\ UNCHANGED aresponse
  /\ UNCHANGED <<db, checkout, access>>

\* The row after prisma.product.update({ where: { id }, data: updateData }).
UpdatedProduct(row, updateData) ==
  [stock |-> IF updateData.stock = <<>> THEN row.stock ELSE updateData.stock[1],
   isActive |-> IF updateData.isActive = <<>> THEN row.isActive
                ELSE updateData.isActive[1]]

\* prisma.product.update, then the answer.
UpdateProductWrite(a) ==
  /\ apc[a] = "upUpdate"
  /\ ~ProductLocked(areq[a][1].id)
  /\ IF areq[a][1].id \notin DOMAIN product
     THEN AdminReply(a, 500) /\ UNCHANGED product
     ELSE /\ product' = [product EXCEPT ![areq[a][1].id] =
                           UpdatedProduct(@, areq[a][1].updateData)]
          /\ AdminReply(a, 200)
  /\ UNCHANGED <<customer, sale, saleItem, stockMovement, receipt, checkout, adminOps, access>>

\* --------------------------------------------------------- role controller
CanManageRoles(u) == user[u].role \in {"SUPER_ADMIN", "PRODUCT_OWNER"}

\* checkPermission: the caller's role and branch come from the session, the
\* rest from the query string; the answer carries the decision.
CheckPermission(u, resource, action, targetBranchId, isOwnData) ==
  /\ IF resource = "" \/ action = ""
     THEN rresponse' = 400 /\ UNCHANGED check
     ELSE /\ rresponse' = 200
          /\ check' = <<[role |-> user[u].role,
                         branchId |-> user[u].branchId,
                         resource |-> resource,
                         action |-> action,
                         targetBranchId |-> targetBranchId,
                         isOwnData |-> isOwnData,
                         hasAccess |-> hasPermission(user[u].role, resource, action,
                                                     user[u].branchId, targetBranchId,
                                                     isOwnData)]>>
  /\ UNCHANGED <<user, roleOverrides, db, checkout, admin>>

\* getRoles: answers with the role table itself.
GetRoles(u) ==
  /\ rresponse' = IF CanManageRoles(u) THEN 200 ELSE 403
  /\ UNCHANGED <<user, roleOverrides, check, db, checkout, admin>>

\* Variant of UpdateUserRole that also empties the permission list of the
\* role it assigns.
UpdateUserRoleEditingTable(u, userId, role) ==
  /\ IF ~CanManageRoles(u)
     THEN rresponse' = 403 /\ UNCHANGED <<user, roleOverrides>>
     ELSE IF role \notin AssignableRoles
     THEN rresponse' = 400 /\ UNCHANGED <<user, roleOverrides>>
     ELSE IF userId \notin DOMAIN user
     THEN rresponse' = 500 /\ UNCHANGED <<user, roleOverrides>>
     ELSE /\ user' = [user EXCEPT ![userId].role = role]
          /\ roleOverrides' =
               [r \in DOMAIN roleOverrides \cup {role} |->
                  IF r = role THEN <<>> ELSE roleOverrides[r]]
          /\ rresponse' = 200
  /\ UNCHANGED <<check, db, checkout, admin>>

\* updateUserRole: prisma.user.update({ data: { role } }); an unknown user
\* id makes the update throw (500).
UpdateUserRole(u, userId, role) ==
  /\ IF ~CanManageRoles(u)
     THEN rresponse' = 403 /\ UNCHANGED user
     ELSE IF role \notin AssignableRoles
     THEN rresponse' = 400 /\ UNCHANGED user
     ELSE IF userId \notin DOMAIN user
     THEN rresponse' = 500 /\ UNCHANGED user
     ELSE /\ user' = [user EXCEPT ![userId].role = role]
          /\ rresponse' = 200
  /\ UNCHANGED <<roleOverrides, check, db, checkout, admin>>

\* getUserPermissions: the caller's permission list and the resources the
\* caller can reach.
GetUserPermissions(u) ==
  /\ IF u = NoUser
     THEN rresponse' = 401 /\ UNCHANGED check
     ELSE /\ rresponse' = 200
          /\ check' = <<[role |-> user[u].role,
                         branchId |-> user[u].branchId,
                         permissions |-> getRolePermissions(user[u].role),
                         accessibleResources |-> getAccessibleResources(user[u].role)]>>
  /\ UNCHANGED <<user, roleOverrides, db, checkout, admin>>

\* getAllowedActions: the actions of the caller's role on req.params.resource.
GetAllowedActions(u, resource) ==
  /\ IF u = NoUser
     THEN rresponse' = 401 /\ UNCHANGED check
     ELSE /\ rresponse' = 200
          /\ check' = <<[role |-> user[u].role,
                         resource |-> resource,
                         allowedActions |-> getAllowedActions(user[u].role, resource)]>>
  /\ UNCHANGED <<user, roleOverrides, db, checkout, admin>>

\* ------------------------------------------------ permission middleware
\* The parts of a request requirePermission reads; a field that is absent
\* is the empty string.
Requests ==
  [params : [branchId : TargetBranches, userId : UserIds \cup {""}],
   body : [branchId : TargetBranches, userId : UserIds \cup {""}],
   query : [branchId : TargetBranches]]

\* a || b || c on strings: the first that is not empty.
FirstPresent(a, b, c) == IF a # "" THEN a ELSE IF b # "" THEN b ELSE c

\* requirePermission(resource, action): 401 without a user, 403 when
\* hasPermission denies, else permissionContext is set and next() runs.
RequirePermission(u, resource, action, req) ==
  /\ IF u = NoUser
     THEN rresponse' = 401 /\ UNCHANGED check
     ELSE LET targetBranchId ==
                FirstPresent(req.params.branchId, req.body.branchId, req.query.branchId)
              isOwnData == req.params.userId = u \/ req.body.userId = u
              hasAccess == hasPermission(user[u].role, resource, action,
                                         user[u].branchId, targetBranchId, isOwnData)
          IN /\ rresponse' = IF hasAccess THEN rresponse ELSE 403
             /\ check' = <<[role |-> user[u].role,
                            branchId |-> user[u].branchId,
                            resource |-> resource,
                            action |-> action,
                            targetBranchId |-> targetBranchId,
                            isOwnData |-> isOwnData,
                            hasAccess |-> hasAccess,
                            req |-> req]>>
  /\ UNCHANGED <<user, roleOverrides, db, checkout, admin>>

\* Two clients, one checkout each.
Next ==
  \/ \E r \in Slots, b \in ConcurrentBodies : pc[r] = "idle" /\ CreateSale(r, b)
  \/ \E r \in Slots : FindProduct(r)
  \/ \E r \in Slots : DecrementStock(r)
  \/ \E r \in Slots : UpdateCustomer(r)
  \/ \E r \in Slots, n \in ReceiptSuffixes : CreateReceipt(r, n)
  \/ \E r \in Slots : FetchSale(r)
  \/ \E r \in Slots : LockTimeout(r)

Spec == Init /\ [][Next]_vars

\* One client, checkouts one after the other.
NextSeq ==
  \/ \E b \in SequentialBodies : CreateSale("r1", b)
  \/ FindProduct("r1")
  \/ DecrementStock("r1")
  \/ UpdateCustomer("r1")
  \/ \E n \in ReceiptSuffixes : CreateReceipt("r1", n)
  \/ FetchSale("r1")

SpecSeq == Init /\ [][NextSeq]_vars

\* One client, one checkout.
NextPrice ==
  \/ \E b \in PricingBodies : pc["r1"] = "idle" /\ CreateSale("r1", b)
  \/ FindProduct("r1")
  \/ DecrementStock("r1")
  \/ UpdateCustomer("r1")
  \/ \E n \in ReceiptSuffixes : CreateReceipt("r1", n)
  \/ FetchSale("r1")

SpecPrice == Init /\ [][NextPrice]_vars

\* One client, one checkout, with a store that can fail after the commit.
NextReadBack ==
  \/ NextPrice
  \/ FetchSaleFails("r1")

SpecReadBack == Init /\ [][NextReadBack]_vars

\* One checkout beside the stock administration (updateStock, deleteProduct).
NextAdmin ==
  \/ \E b \in AdminBodies : pc["r1"] = "idle" /\ CreateSale("r1", b)
  \/ FindProduct("r1")
  \/ DecrementStock("r1")
  \/ UpdateCustomer("r1")
  \/ \E n \in ReceiptSuffixes : CreateReceipt("r1", n)
  \/ FetchSale("r1")
  \/ \E id \in ProductIds, type \in MovementTypes, q \in MovementQuantities :
        UpdateStockRead("a1", id, type, q)
  \/ UpdateStockWrite("a1")
  \/ UpdateStockMovement("a1")
  \/ \E id \in ProductIds : DeleteProductCount("a1", id)
  \/ DeleteProductDeactivate("a1")
  \/ DeleteProductPurge("a1")

SpecAdmin == Init /\ [][NextAdmin]_vars

\* The stock administration alone: updateStock requests one after the other.
NextStock ==
  \/ \E id \in ProductIds, type \in MovementTypes, q \in MovementQuantities :
        UpdateStockRead("a1", id, type, q)
  \/ UpdateStockWrite("a1")
  \/ UpdateStockMovement("a1")

SpecStock == Init /\ [][NextStock]_vars

\* updateStock requests one after the other, with a store that can fail
\* between two statements.
NextStockFault ==
  \/ NextStock
  \/ UpdateStockMovementFails("a1")

SpecStockFault == Init /\ [][NextStockFault]_vars

\* An empty catalogue.
InitLedger ==
  /\ product = <<>>
  /\ customer = [c \in CustomerIds |-> [totalPurchases |-> 0, loyaltyPoints |-> 0]]
  /\ sale = {}
  /\ saleItem = {}
  /\ stockMovement = <<>>
  /\ receipt = {}
  /\ InitRequests
  /\ user = SeededUsers

\* The catalogue API, one request after the other: createProduct,
\* updateProduct, updateStock.
NextLedger ==
  \/ \E id \in ProductIds, stock \in {-1, 0, 2} : CreateProductInsert("a1", id, stock)
  \/ CreateProductMovement("a1")
  \/ \E id \in ProductIds \cup {UnknownProduct}, updateData \in UpdateProductData :
        UpdateProductFind("a1", id, updateData)
  \/ UpdateProductWrite("a1")
  \/ \E id \in ProductIds, type \in MovementTypes, q \in MovementQuantities :
        UpdateStockRead("a1", id, type, q)
  \/ UpdateStockWrite("a1")
  \/ UpdateStockMovement("a1")

SpecLedger == InitLedger /\ [][NextLedger]_vars

\* Every product holds enough stock for any request of the workload.
InitDisjoint ==
  /\ Init
  /\ \A p \in ProductIds : product[p].stock = MaxStock

\* Two clients at the same time, on products of their own.
NextDisjoint ==
  \/ \E r \in Slots : \E b \in DisjointBodies(r) : pc[r] = "idle" /\ CreateSale(r, b)
  \/ \E r \in Slots : FindProduct(r)
  \/ \E r \in Slots : DecrementStock(r)
  \/ \E r \in Slots, n \in ReceiptSuffixes : CreateReceipt(r, n)
  \/ \E r \in Slots : FetchSale(r)

SpecDisjoint == InitDisjoint /\ [][NextDisjoint]_vars

\* Two updateStock requests of type IN at the same time.
NextStockPair ==
  \/ \E a \in AdminSlots, id \in ProductIds, q \in {1, 2} :
        UpdateStockRead(a, id, "IN", q)
  \/ \E a \in AdminSlots : UpdateStockWrite(a)
  \/ \E a \in AdminSlots : UpdateStockMovement(a)

SpecStockPair == InitDisjoint /\ [][NextStockPair]_vars

\* One user of any role and branch, the store at rest.
InitPerm ==
  /\ InitData
  /\ \A p \in ProductIds : product[p].stock = MaxStock
  /\ user \in [UserIds -> [role : RoleNames, branchId : UserBranches]]
  /\ user["u2"] = SeededUsers["u2"]

\* One permission query, over every resource, action, target branch and
\* ownership.
NextPerm ==
  \E u \in UserIds, resource \in RESOURCES \cup {""}, action \in ACTION_NAMES \cup {""},
     targetBranchId \in TargetBranches, isOwnData \in BOOLEAN :
    check = <<>> /\ CheckPermission(u, resource, action, targetBranchId, isOwnData)

SpecPerm == InitPerm /\ [][NextPerm]_vars

\* One request of user u1 (of any role and branch) or of nobody through the
\* permission middleware, over every resource, action and placement of the
\* branch and user ids.
NextRequire ==
  /\ check = <<>>
  /\ \E u \in {"u1", NoUser}, resource \in RESOURCES, action \in ACTION_NAMES,
        req \in Requests :
       RequirePermission(u, resource, action, req)

SpecRequire == InitPerm /\ [][NextRequire]_vars

\* A resource name the table does not know.
UnknownResource == "warehouse"

\* One query of user u1 (of any role) or of nobody for the own permissions
\* or for the actions on a resource.
NextHelpers ==
  /\ check = <<>>
  /\ \/ \E u \in {"u1", NoUser} : GetUserPermissions(u)
     \/ \E u \in {"u1", NoUser}, resource \in RESOURCES \cup {UnknownResource} :
          GetAllowedActions(u, resource)

SpecHelpers == InitPerm /\ [][NextHelpers]_vars

\* Users of any role.
InitRole ==
  /\ InitData
  /\ \A p \in ProductIds : product[p].stock = MaxStock
  /\ user \in [UserIds -> [role : RoleNames, branchId : {"b1"}]]

\* The role API: permission queries, the role list, role assignment.
NextRole ==
  \/ \E u \in UserIds, resource \in RoleResources \cup {""}, action \in RoleActions,
        targetBranchId \in TargetBranches, isOwnData \in BOOLEAN :
       CheckPermission(u, resource, action, targetBranchId, isOwnData)
  \/ \E u \in UserIds : GetRoles(u)
  \/ \E u \in UserIds, userId \in UserIds \cup {UnknownUser},
        role \in AssignableRoles \cup {"ADMIN"} :
       UpdateUserRole(u, userId, role)

SpecRole == InitRole /\ [][NextRole]_vars

\* One checkout by a user of any role.
InitGate ==
  /\ InitData
  /\ user \in [UserIds -> [role : AssignableRoles, branchId : {"b1"}]]
  /\ user["u2"] = SeededUsers["u2"]

SpecGate == InitGate /\ [][NextPrice]_vars

\* ------------------------------------------------------------- properties
RECURSIVE SumOver(_, _)
\* Sum of f[x] over the finite set S.
SumOver(f, S) ==
  IF S = {} THEN 0
  ELSE LET x == CHOOSE y \in S : TRUE
       IN f[x] + SumOver(f, S \ {x})

ItemsOf(s) == {it \in saleItem : it.saleId = s.id}
InTransaction == {"findProduct", "updateStock", "updateCustomer", "createReceipt"}
TransactionFailures ==
  {"ProductNotFound", "InsufficientStock", "CustomerNotFound",
   "ReceiptNumberTaken", "Transient"}

\* A step taken by checkout r.
StepOf(r) == <<pc[r], idx[r], tx[r], response[r]>>' # <<pc[r], idx[r], tx[r], response[r]>>

\* C1: a checkout changes the database in its commit step only, and a
\* checkout that fails (product not found, insufficient stock, customer
\* update failure, receipt creation failure, lock wait) fails from inside
\* its transaction, before any commit: stock, sales, sale items, stock
\* movements, receipts and customer totals are what they were.
C1_AllOrNothing ==
  [][\A r \in Slots :
       /\ (StepOf(r) /\ pc'[r] # "fetchSale") => db' = db
       /\ (response'[r].status = 500 /\ response[r].status # 500) =>
            /\ pc[r] \in InTransaction
            /\ response'[r].kind \in TransactionFailures
            /\ db' = db
            /\ \A s \in sale' : s.id # tx[r].sale[1].id]_vars

\* A checkout failed on its second line for insufficient stock, after the
\* decrement of its first line.
C1_Witness ==
  \E r \in Slots :
    pc[r] = "done" /\ response[r].kind = "InsufficientStock" /\ idx[r] = 2

\* Units of product p in committed sale items.
QuantitySold(p) ==
  SumOver([it \in saleItem |-> it.quantity], {it \in saleItem : it.productId = p})

\* C2: of two checkouts for the last unit of a product (stock 1, quantity 1
\* each) at most one commits, and the stock ends at 0, never below.
C2_LastUnitSoldOnce ==
  \A p \in DOMAIN product :
    product[p].stock + QuantitySold(p) = 1 =>
      /\ Cardinality({it \in saleItem : it.productId = p}) <= 1
      /\ product[p].stock >= 0

\* C3: the stock of every product is >= 0 in every reachable state.
C3_StockNonNegative == \A p \in DOMAIN product : product[p].stock >= 0

\* C4: every Sale has at least one SaleItem and exactly one Receipt, every
\* SaleItem belongs to a Sale, and every stock movement with reason 'Sale'
\* references a Sale that has a SaleItem of that product and quantity.
C4_SaleComplete ==
  /\ \A s \in sale :
       /\ ItemsOf(s) # {}
       /\ Cardinality({rc \in receipt : rc.saleId = s.id}) = 1
  /\ \A it \in saleItem : \E s \in sale : s.id = it.saleId
  /\ \A i \in DOMAIN stockMovement :
       stockMovement[i].reason = "Sale" =>
         \E it \in saleItem :
           /\ it.saleId = stockMovement[i].reference
           /\ it.productId = stockMovement[i].productId
           /\ it.quantity = stockMovement[i].quantity
           /\ \E s \in sale : s.id = it.saleId

\* Quantity the lines of a request ask of product p.
RECURSIVE QuantityNamed(_, _, _)
QuantityNamed(items, n, p) ==
  IF n = 0 THEN 0
  ELSE QuantityNamed(items, n - 1, p)
       + (IF items[n].productId = p THEN items[n].quantity ELSE 0)

\* C5: the commit of a checkout lowers the stock of each product by the sum
\* of the quantities of the lines naming it (0 for a product not named),
\* and appends one OUT movement per line, in line order, with the line's
\* quantity and the id of the new Sale as reference.
C5_CheckoutEffect ==
  [][\A r \in Slots :
       (pc[r] = "createReceipt" /\ pc'[r] = "fetchSale") =>
         LET items == body[r][1].items
         IN /\ DOMAIN product' = DOMAIN product
            /\ \A p \in DOMAIN product :
                 product'[p].stock =
                   product[p].stock - QuantityNamed(items, Len(items), p)
            /\ \E s \in sale' \ sale :
                 /\ sale' = sale \cup {s}
                 /\ stockMovement' = stockMovement \o
                      [i \in 1..Len(items) |->
                         [productId |-> items[i].productId,
                          type |-> "OUT",
                          quantity |-> items[i].quantity,
                          reason |-> "Sale",
                          reference |-> s.id]]]_vars

\* A committed sale with two lines naming the same product.
C5_Witness ==
  \E a \in saleItem, b \in saleItem :
    a.saleId = b.saleId /\ a.lineNo # b.lineNo /\ a.productId = b.productId

\* C6: every persisted Sale has subtotal = sum of quantity * unitPrice over
\* its lines, taxAmount = 17% of the subtotal, totalAmount = subtotal +
\* taxAmount - discountAmount, and with no discount totalAmount = 1.17 *
\* subtotal (amounts in fixed point).
C6_Pricing ==
  \A s \in sale :
    /\ s.subtotal =
         SumOver([it \in saleItem |-> it.quantity * it.unitPrice], ItemsOf(s))
    /\ \A it \in ItemsOf(s) : it.totalPrice = it.quantity * it.unitPrice
    /\ s.taxAmount * TaxRateDen = s.subtotal * TaxRateNum
    /\ s.totalAmount = s.subtotal + s.taxAmount - s.discountAmount
    /\ s.discountAmount = 0 =>
         s.totalAmount * TaxRateDen = s.subtotal * (TaxRateDen + TaxRateNum)

\* A sale of two lines, quantity 2 at 85 and quantity 1 at 15, no discount:
\* subtotal 185, tax 31.45, total 216.45.
C6_Witness ==
  \E s \in sale :
    /\ s.subtotal = 18500 /\ s.taxAmount = 3145 /\ s.totalAmount = 21645
    /\ \E a \in ItemsOf(s), b \in ItemsOf(s) :
         a.quantity = 2 /\ a.unitPrice = 8500 /\ b.quantity = 1 /\ b.unitPrice = 1500

\* C7: no committed Sale has a negative totalAmount.
C7_TotalNonNegative == \A s \in sale : s.totalAmount >= 0

\* C8: a customer's loyaltyPoints is the sum, over the committed sales of
\* that customer, of floor(totalAmount / 100); a failed checkout leaves no
\* sale and adds nothing.
C8_LoyaltySum ==
  \A c \in DOMAIN customer :
    LET mine == {s \in sale : s.customerId = c}
    IN customer[c].loyaltyPoints =
         SumOver([s \in sale |-> s.totalAmount \div (PointsDivisor * TaxRateDen)],
                 mine)

\* MaxCheckouts sales of one customer are committed, points were earned,
\* and they are fewer than the floor of the summed totals.
C8_Witness ==
  /\ Cardinality({s \in sale : s.customerId = "c1"}) = MaxCheckouts
  /\ customer["c1"].loyaltyPoints >= 1
  /\ customer["c1"].loyaltyPoints <
       customer["c1"].totalPurchases \div (PointsDivisor * TaxRateDen)

\* C9: no step lowers a customer's totalPurchases or loyaltyPoints.
C9_CustomerMonotonic ==
  [][\A c \in DOMAIN customer :
       /\ customer'[c].totalPurchases >= customer[c].totalPurchases
       /\ customer'[c].loyaltyPoints >= customer[c].loyaltyPoints]_vars

\* C10: no checkout is failed because its generated receipt number is
\* already taken (the engine draws another number instead).
C10_CollisionRetried ==
  \A r \in Slots : response[r].kind # "ReceiptNumberTaken"

C12_BothCommit ==
  \A r \in Slots : pc[r] = "done" => response[r].status = 201

\* Entries of the loaded table for a role and a resource.
TableEntries(role, resource) ==
  LET rows == {i \in DOMAIN ROLE_PERMISSIONS : ROLE_PERMISSIONS[i].role = role}
      listed == UNION {{ROLE_PERMISSIONS[i].permissions[j] :
                          j \in DOMAIN ROLE_PERMISSIONS[i].permissions} : i \in rows}
  IN {p \in listed : p.resource = resource}

\* The table lists exactly this action for the role and the resource.
Granted(role, resource, action) ==
  \E p \in TableEntries(role, resource) :
    \E k \in DOMAIN p.actions : p.actions[k] = action

BranchExempt == {"PRODUCT_OWNER", "SUPER_ADMIN"}

\* The two branches of a query are present and differ.
CrossBranch(c) ==
  c.branchId # "" /\ c.targetBranchId # "" /\ c.branchId # c.targetBranchId

\* C14: for a role other than PRODUCT_OWNER and SUPER_ADMIN, a query for a
\* granted action of a branch-scoped permission, with the user's branch and
\* the target branch present and different, is denied.
C14_CrossBranchDenied ==
  (/\ check # <<>>
   /\ check[1].role \notin BranchExempt
   /\ Granted(check[1].role, check[1].resource, check[1].action)
   /\ \E p \in TableEntries(check[1].role, check[1].resource) : p.conditions.branchId
   /\ CrossBranch(check[1]))
    => ~check[1].hasAccess

\* A manager of branch b1 asked for 'manage' on the products of branch b2.
C14_Witness ==
  /\ check # <<>>
  /\ check[1].role = "MANAGER"
  /\ check[1].resource = "products" /\ check[1].action = "manage"
  /\ check[1].branchId = "b1" /\ check[1].targetBranchId = "b2"
  /\ check[1].isOwnData
  /\ ~check[1].hasAccess

\* C15: every action the table grants to PRODUCT_OWNER or SUPER_ADMIN is
\* allowed, also when the user's branch and the target branch differ.
C15_ExemptFromBranch ==
  (/\ check # <<>>
   /\ check[1].role \in BranchExempt
   /\ Granted(check[1].role, check[1].resource, check[1].action))
    => check[1].hasAccess

\* C16: when the permission of the role for the resource has ownData set
\* (CASHIER on reports), a query with isOwnData false is denied, whatever
\* the branches.
C16_OwnDataOnly ==
  (/\ check # <<>>
   /\ \E p \in TableEntries(check[1].role, check[1].resource) : p.conditions.ownData
   /\ ~check[1].isOwnData)
    => ~check[1].hasAccess

\* A cashier asked to read the reports of the own branch that are not the
\* cashier's own data.
C16_Witness ==
  /\ check # <<>>
  /\ check[1].role = "CASHIER"
  /\ check[1].resource = "reports" /\ check[1].action = "read"
  /\ check[1].branchId = "b1" /\ check[1].targetBranchId = "b1"
  /\ ~check[1].isOwnData
  /\ ~check[1].hasAccess

\* The arguments of a permission query.
Arguments(c) ==
  <<c.role, c.resource, c.action, c.branchId, c.targetBranchId, c.isOwnData>>

\* C17: no step (permission query, getRoles, updateUserRole) changes the
\* role table, which stays as loaded; a permission query changes neither
\* the users nor the store; and a query with the arguments of the query
\* before it gets the same decision.
C17_EvaluatorPure ==
  [][/\ rolePermissions' = rolePermissions
     /\ rolePermissions = ROLE_PERMISSIONS
     /\ check' # check => (user' = user /\ db' = db)
     /\ (check # <<>> /\ check' # <<>> /\ Arguments(check'[1]) = Arguments(check[1]))
          => check'[1].hasAccess = check[1].hasAccess]_vars

\* A role was assigned after a permission query was answered: the role of
\* the query is no user's role any more.
C17_Witness ==
  /\ check # <<>>
  /\ rresponse = 200
  /\ \A u \in UserIds : user[u].role # check[1].role

\* C18: every committed sale was made by a user whose role the permission
\* engine allows to create sales (for some branch and ownership arguments).
C18_CheckoutGated ==
  \A s \in sale :
    hasPermission(user[s.userId].role, "sales", "create", "", "", TRUE)

\* updateStock writes the product row.
StockWritten == apc["a1"] = "usUpdate" /\ apc'["a1"] = "usMovement"

C20_ReturnAddsStock ==
  [][/\ (StockWritten /\ areq["a1"][1].type = "RETURN") =>
          product'[areq["a1"][1].id].stock = product[areq["a1"][1].id].stock + areq["a1"][1].quantity
     /\ (apc["a1"] = "usMovement" /\ apc'["a1"] = "idle" /\ areq["a1"][1].type = "RETURN") =>
          /\ Len(stockMovement') = Len(stockMovement) + 1
          /\ stockMovement'[Len(stockMovement')].type = "RETURN"]_vars

\* The stock the movements of product p add up to: IN and RETURN add,
\* OUT subtracts, ADJUSTMENT sets.
RECURSIVE Replay(_, _, _)
Replay(movements, p, stock) ==
  IF movements = <<>> THEN stock
  ELSE LET m == Head(movements)
       IN Replay(Tail(movements), p,
                 IF m.productId # p THEN stock
                 ELSE IF m.type \in {"IN", "RETURN"} THEN stock + m.quantity
                 ELSE IF m.type = "OUT" THEN stock - m.quantity
                 ELSE IF m.type = "ADJUSTMENT" THEN m.quantity
                 ELSE stock)

AdminAtRest == \A a \in AdminSlots : apc[a] = "idle"

\* C21: every stock change has its StockMovement: once the requests have
\* been answered, the stock of each product equals the replay of the
\* movements recorded for it.
C21_StockReplaysLedger ==
  AdminAtRest =>
    \A p \in DOMAIN product : product[p].stock = Replay(stockMovement, p, 0)

\* C22: the ledger is append-only: a StockMovement that exists is present
\* and unchanged in every later state, whatever the interleaving of
\* checkouts, updateStock and deleteProduct.
C22_LedgerAppendOnly ==
  [][\A i \in DOMAIN stockMovement :
       i \in DOMAIN stockMovement' /\ stockMovement'[i] = stockMovement[i]]_vars

\* C23: a failure reported is a failure with nothing applied: when the one
\* checkout of the run was answered 400 or 500 (an error in the read-back
\* after the commit included), no Sale, SaleItem, StockMovement or Receipt
\* is persisted and no customer total has changed.
C23_FailureAppliesNothing ==
  response["r1"].status \in {400, 500} =>
    /\ sale = {} /\ saleItem = {} /\ stockMovement = <<>> /\ receipt = {}
    /\ \A c \in DOMAIN customer :
         customer[c].totalPurchases = 0 /\ customer[c].loyaltyPoints = 0

\* C24: updateStock applies the stock change and its StockMovement
\* together: a request that has written the new stock is not answered
\* before its movement is in the ledger, a failure between the product
\* update and the movement insert included.
C24_StockAndMovementTogether ==
  [][(apc["a1"] = "usMovement" /\ apc'["a1"] = "idle") =>
       /\ Len(stockMovement') = Len(stockMovement) + 1
       /\ stockMovement'[Len(stockMovement')].productId = areq["a1"][1].id
       /\ stockMovement'[Len(stockMovement')].type = areq["a1"][1].type
       /\ stockMovement'[Len(stockMovement')].quantity = areq["a1"][1].quantity]_vars

\* C25: 'manage' means full control: when the role's table entry for the
\* resource lists 'manage', a query for any action is allowed, unless the
\* branches of the query differ under a branch-scoped entry or the entry is
\* limited to own data and the data is not the user's own.
C25_ManageIsFullControl ==
  (/\ check # <<>>
   /\ Granted(check[1].role, check[1].resource, "manage")
   /\ \A p \in TableEntries(check[1].role, check[1].resource) :
        /\ p.conditions.branchId => ~CrossBranch(check[1])
        /\ p.conditions.ownData => check[1].isOwnData)
    => check[1].hasAccess

\* C26: within one checkout the lines naming a product are checked
\* cumulatively: a line is accepted only if its quantity plus the
\* quantities of the earlier lines naming the product fit in the stock, and
\* a line that makes the sum exceed the stock fails the checkout for
\* insufficient stock with nothing persisted.
C26_CumulativeStockCheck ==
  [][\A r \in Slots :
       (pc[r] = "findProduct" /\ StepOf(r)) =>
         LET items == body[r][1].items
             p == items[idx[r]].productId
         IN IF QuantityNamed(items, idx[r], p) <= product[p].stock
            THEN pc'[r] = "updateStock"
            ELSE /\ pc'[r] = "done"
                 /\ response'[r] = [status |-> 500, kind |-> "InsufficientStock"]
                 /\ tx'[r] = EmptyTx
                 /\ db' = db
                 /\ \A s \in sale' : s.id # tx[r].sale[1].id]_vars

\* The second line of a checkout is about to be checked: it names the
\* product of the first line, its quantity alone fits in the stock, and the
\* two quantities together do not.
C26_Witness ==
  /\ pc["r1"] = "findProduct" /\ idx["r1"] = 2
  /\ LET items == body["r1"][1].items
         p == items[2].productId
     IN /\ items[1].productId = p
        /\ tx["r1"].dec[p] = items[1].quantity
        /\ items[2].quantity <= product[p].stock
        /\ items[1].quantity + items[2].quantity > product[p].stock

\* The request carries no branch id.
NoBranchId(req) ==
  req.params.branchId = "" /\ req.body.branchId = "" /\ req.query.branchId = ""

\* C27: branch scoping fails open on missing context: a request without a
\* branch id reaches hasPermission with no target branch, and a query for
\* a granted action of a branch-scoped permission with the user's branch
\* or the target branch missing is admitted by requirePermission, provided
\* the own-data condition (where the entry has one) is met.
C27_BranchFailsOpen ==
  check # <<>> =>
    /\ NoBranchId(check[1].req) => check[1].targetBranchId = ""
    /\ (/\ Granted(check[1].role, check[1].resource, check[1].action)
        /\ \E p \in TableEntries(check[1].role, check[1].resource) : p.conditions.branchId
        /\ check[1].branchId = "" \/ check[1].targetBranchId = ""
        /\ \A p \in TableEntries(check[1].role, check[1].resource) :
             p.conditions.ownData => check[1].isOwnData)
         => (check[1].hasAccess /\ rresponse # 403)

\* A cashier of branch b1 asked to create a sale with a request that names
\* no branch, and was admitted.
C27_Witness ==
  /\ check # <<>>
  /\ check[1].role = "CASHIER" /\ check[1].branchId = "b1"
  /\ check[1].resource = "sales" /\ check[1].action = "create"
  /\ \E p \in TableEntries("CASHIER", "sales") : p.conditions.branchId
  /\ NoBranchId(check[1].req)
  /\ check[1].hasAccess
  /\ rresponse = 0

\* The branches a user and a target can share.
SameBranches == TargetBranches \ {""}

\* C28: the helper functions agree with the evaluator: an action is in
\* getAllowedActions(role, resource) exactly when hasPermission allows it
\* for equal branches and own data, and a resource is in
\* getAccessibleResources(role) exactly when some action on it is allowed
\* so; the table holds at most one entry per resource for each role.
C28_HelpersAgree ==
  /\ \A i \in DOMAIN rolePermissions : \A resource \in RESOURCES :
       Cardinality({j \in DOMAIN rolePermissions[i].permissions :
                      rolePermissions[i].permissions[j].resource = resource}) <= 1
  /\ (check # <<>> /\ "allowedActions" \in DOMAIN check[1]) =>
       \A action \in ACTION_NAMES \cup {""}, b \in SameBranches :
         Includes(check[1].allowedActions, action)
           <=> hasPermission(check[1].role, check[1].resource, action, b, b, TRUE)
  /\ (check # <<>> /\ "accessibleResources" \in DOMAIN check[1]) =>
       \A resource \in RESOURCES \cup {UnknownResource}, b \in SameBranches :
         Includes(check[1].accessibleResources, resource)
           <=> \E action \in ACTION_NAMES :
                 hasPermission(check[1].role, resource, action, b, b, TRUE)

\* A product owner asked for the own permissions: users is among the
\* accessible resources, products (listed with no action) is not.
C28_Witness ==
  /\ check # <<>>
  /\ "accessibleResources" \in DOMAIN check[1]
  /\ check[1].role = "PRODUCT_OWNER"
  /\ Includes(check[1].accessibleResources, "users")
  /\ ~Includes(check[1].accessibleResources, "products")
  /\ hasPermission("PRODUCT_OWNER", "users", "manage", "b1", "b1", TRUE)
  /\ \A action \in ACTION_NAMES :
       ~hasPermission("PRODUCT_OWNER", "products", action, "b1", "b1", TRUE)

\* C29: concurrent updateStock calls of type IN lose no update: once the
\* requests on products that held MaxStock have been answered, a movement
\* is recorded for each request and the stock of every product is MaxStock
\* plus the quantities of its movements, in every interleaving.
C29_NoLostUpdate ==
  AdminAtRest =>
    /\ Len(stockMovement) = adminOps
    /\ \A p \in DOMAIN product :
         product[p].stock = Replay(stockMovement, p, MaxStock)

\* C30: a sale contains only products that are active at the time of the
\* checkout: every line of a checkout that commits names a product that
\* exists and is active.
C30_SoldProductsActive ==
  [][\A r \in Slots :
       (pc[r] = "createReceipt" /\ pc'[r] = "fetchSale") =>
         \A i \in DOMAIN tx[r].items :
           /\ tx[r].items[i].productId \in DOMAIN product
           /\ product[tx[r].items[i].productId].isActive]_vars

====
